---- MODULE Spec2Model ----
(***************************************************************************)
(* Model of the two utilities of learn_networks_maps:                      *)
(*   Pipeline A  src/convert_pdf.py   PDF text -> cleaned lines -> records *)
(*                                    -> CSV                               *)
(*   Pipeline B  src/scrape_incs.py   headless browser -> HTML -> CSV      *)
(*                                                                         *)
(* Text is modelled by TLA+ strings; a character is a string of length 1.  *)
(* The alphabet is ASCII: \d is 0-9, \s and str.strip() know the blanks    *)
(* space, \t, \n, \r and \f.                                               *)
(***************************************************************************)
EXTENDS Integers, Sequences, FiniteSets, TLC

VARIABLES
    pc,             \* position of the run
    argc,           \* len(sys.argv)
    input_exists,   \* Path(input_pdf).exists()
    open_ok,        \* whether open() and PdfReader succeed on the input
    pages,          \* pdf_reader.pages: per page its text, or PageError
    page_num,       \* pages consumed by extract_text_from_pdf
    text,           \* extract_text_from_pdf: text
    raw_lines,      \* clean_text_lines: lines = text.split('\n')
    ci,             \* clean_text_lines: lines consumed by the for loop
    cleaned_lines,  \* clean_text_lines: cleaned_lines
    lines,          \* extract_schools_data: lines
    i,              \* extract_schools_data: i
    current_school, \* extract_schools_data: current_school (a dict)
    schools,        \* extract_schools_data: schools
    line,           \* the line last looked at
    line_type,      \* identify_line_type: the tag returned for it
    csv_file,       \* the output CSV: NoFile, or its rows
    diag,           \* whether "No schools data to save!" was printed
    exit_code,      \* the process exit status, NoExit while running
    error,          \* what ended the run early, NoError otherwise
    out_path,       \* scrape_incs: os.path.dirname(sys.argv[1]), and whether it exists
    dirs_made,      \* scrape_incs: os.makedirs created the parent directory
    driver,         \* scrape_incs: the browser session
    env,            \* scrape_incs: what each external call will do
    items,          \* scrape_incs: soup.select('.schools-list li')
    li,             \* scrape_incs: items consumed by the for loop
    listings        \* scrape_incs: schools

cliV == <<argc, input_exists, open_ok, pages>>
extractV == <<page_num, text>>
cleanV == <<raw_lines, ci, cleaned_lines>>
assembleV == <<lines, i, current_school, schools>>
classifyV == <<line, line_type>>
ioV == <<csv_file, diag, exit_code, error>>
scrapeV == <<out_path, dirs_made, driver, env, items, li, listings>>
vars == <<pc, cliV, extractV, cleanV, assembleV, classifyV, ioV, scrapeV>>

-----------------------------------------------------------------------------
(* Characters and Python's str methods                                     *)

Digit == {"0", "1", "2", "3", "4", "5", "6", "7", "8", "9"}
Upper == {"A", "B", "C", "D", "E", "F", "G", "H", "I", "J", "K", "L", "M",
          "N", "O", "P", "Q", "R", "S", "T", "U", "V", "W", "X", "Y", "Z"}
Lower == {"a", "b", "c", "d", "e", "f", "g", "h", "i", "j", "k", "l", "m",
          "n", "o", "p", "q", "r", "s", "t", "u", "v", "w", "x", "y", "z"}
Whitespace == {" ", "\t", "\n", "\r", "\f"}

Ch(s, k) == SubSeq(s, k, k)

\* str.startswith(prefix)
startswith(s, prefix) ==
    Len(s) >= Len(prefix) /\ SubSeq(s, 1, Len(prefix)) = prefix

\* sub in s
contains(s, sub) ==
    \E k \in 1..(Len(s) - Len(sub) + 1) : SubSeq(s, k, k + Len(sub) - 1) = sub

\* s.count(c) for a single character c
count(s, c) == Cardinality({k \in 1..Len(s) : Ch(s, k) = c})

Min(S) == CHOOSE m \in S : \A n \in S : m <= n
Max(S) == CHOOSE m \in S : \A n \in S : m >= n

\* s.strip()
strip(s) ==
    LET keep == {k \in 1..Len(s) : Ch(s, k) \notin Whitespace}
    IN  IF keep = {} THEN "" ELSE SubSeq(s, Min(keep), Max(keep))

\* s.replace(old, ''): every non-overlapping occurrence of old, from the left
RECURSIVE replace_from(_, _, _)
replace_from(s, old, k) ==
    LET found == {p \in k..(Len(s) - Len(old) + 1) :
                     SubSeq(s, p, p + Len(old) - 1) = old}
    IN  IF found = {} THEN SubSeq(s, k, Len(s))
        ELSE SubSeq(s, k, Min(found) - 1)
             \o replace_from(s, old, Min(found) + Len(old))

replace(s, old) == replace_from(s, old, 1)

\* s.isupper(): at least one cased character, and no lower-case one
isupper(s) ==
    /\ \E k \in 1..Len(s) : Ch(s, k) \in Upper
    /\ \A k \in 1..Len(s) : Ch(s, k) \notin Lower

\* s.split(sep) for a single character sep: the pieces between its occurrences
split(s, sep) ==
    LET cuts == {k \in 1..Len(s) : Ch(s, k) = sep}
        starts == {1} \cup {k + 1 : k \in cuts}
        nth(n) == CHOOSE p \in starts : Cardinality({q \in starts : q < p}) = n - 1
        stop(p) == Min({k \in cuts \cup {Len(s) + 1} : k >= p}) - 1
    IN  [n \in 1..Cardinality(starts) |-> SubSeq(s, nth(n), stop(nth(n)))]

-----------------------------------------------------------------------------
(* Regular expressions (module re).  A pattern is a set of alternatives,   *)
(* each a sequence of elements: a character class with a quantifier.       *)
(* Positions are the index of the next character to read.                  *)

One(set) == [neg |-> FALSE, set |-> set, q |-> "1"]
Opt(set) == [neg |-> FALSE, set |-> set, q |-> "?"]
Plus(set) == [neg |-> FALSE, set |-> set, q |-> "+"]
PlusNot(set) == [neg |-> TRUE, set |-> set, q |-> "+"]
Lit(str) == [k \in 1..Len(str) |-> One({Ch(str, k)})]
Rep(e, n) == [k \in 1..n |-> e]

InClass(c, e) == IF e.neg THEN c \notin e.set ELSE c \in e.set

StepOne(e, s, P) ==
    {p + 1 : p \in {q \in P : q <= Len(s) /\ InClass(Ch(s, q), e)}}

\* one or more characters of the class
StepPlus(e, s, P) ==
    {q \in 2..(Len(s) + 1) :
        \E p \in P : p < q /\ \A k \in p..(q - 1) : InClass(Ch(s, k), e)}

Step(e, s, P) ==
    CASE e.q = "1" -> StepOne(e, s, P)
      [] e.q = "?" -> P \cup StepOne(e, s, P)
      [] e.q = "+" -> StepPlus(e, s, P)

RECURSIVE Run(_, _, _, _)
Run(alt, k, s, P) ==
    IF k > Len(alt) \/ P = {} THEN P ELSE Run(alt, k + 1, s, Step(alt[k], s, P))

\* $ : the end of the string, or just before a newline that ends it
AtEnd(s, p) == p = Len(s) + 1 \/ (p = Len(s) /\ Ch(s, p) = "\n")

Ends(pattern, s, P) ==
    LET reached == UNION {Run(alt, 1, s, P) : alt \in pattern.alts}
    IN  IF pattern.dollar THEN {p \in reached : AtEnd(s, p)} ELSE reached

\* re.match(pattern, s): a match that starts at the first character
re_match(pattern, s) == Ends(pattern, s, {1}) # {}

\* re.search(pattern, s): a match that starts anywhere
re_search(pattern, s) == Ends(pattern, s, 1..(Len(s) + 1)) # {}

-----------------------------------------------------------------------------
(* CharterschoolExtractor.__init__: self.patterns                          *)

\* r'\(\d{3}\)\s\d{3}-\d{4}'
pattern_phone ==
    [dollar |-> FALSE,
     alts |-> {Lit("(") \o Rep(One(Digit), 3) \o Lit(")") \o <<One(Whitespace)>>
               \o Rep(One(Digit), 3) \o Lit("-") \o Rep(One(Digit), 4)}]

\* the address pattern with the -NNNN suffix of the ZIP forgotten
pattern_address_no_plus4 ==
    [dollar |-> TRUE,
     alts |-> {<<Plus(Digit), PlusNot({"\n"})>> \o Lit("IL")
               \o <<One(Whitespace)>> \o Rep(One(Digit), 5)}]

\* r'^\d+.+?IL\s\d{5}(?:-\d{4})?$'
pattern_address ==
    LET head == <<Plus(Digit), PlusNot({"\n"})>> \o Lit("IL")
                \o <<One(Whitespace)>> \o Rep(One(Digit), 5)
    IN  [dollar |-> TRUE,
         alts |-> {head, head \o Lit("-") \o Rep(One(Digit), 4)}]

\* r'https://www\.incschools\.org/school/[^/\s]+/?'
pattern_url ==
    [dollar |-> FALSE,
     alts |-> {Lit("https://www.incschools.org/school/")
               \o <<PlusNot({"/"} \cup Whitespace), Opt({"/"})>>}]

\* r'^(?:PK\s?-\s?\d+|K\s?-\s?\d+|\d+\s?-\s?\d+|N/A)$'
pattern_grade_levels ==
    LET range == <<Opt(Whitespace)>> \o Lit("-") \o <<Opt(Whitespace), Plus(Digit)>>
    IN  [dollar |-> TRUE,
         alts |-> {Lit("PK") \o range, Lit("K") \o range,
                   <<Plus(Digit)>> \o range, Lit("N/A")}]

\* r'^(?:Level\s\d\+?|Not Applicable|Inability to Rate)$'
pattern_sqrp_rating ==
    [dollar |-> TRUE,
     alts |-> {Lit("Level") \o <<One(Whitespace), One(Digit), Opt({"+"})>>,
               Lit("Not Applicable"), Lit("Inability to Rate")}]

patterns ==
    [phone |-> pattern_phone, address |-> pattern_address, url |-> pattern_url,
     grade_levels |-> pattern_grade_levels, sqrp_rating |-> pattern_sqrp_rating]

-----------------------------------------------------------------------------
(* CharterschoolExtractor.identify_line_type                               *)

\* the chain with the address test moved in front of the phone test
identify_line_type_address_first(l) ==
    IF re_match(patterns.address, l) THEN "address"
    ELSE IF re_search(patterns.phone, l) THEN "phone"
    ELSE IF re_match(patterns.url, l) THEN "url"
    ELSE IF l = "Charter" THEN "charter_type"
    ELSE IF re_match(patterns.grade_levels, l) THEN "grade_levels"
    ELSE IF re_match(patterns.sqrp_rating, l) THEN "sqrp_rating"
    ELSE IF startswith(l, "SQRP Rating:") THEN "sqrp_rating_line"
    ELSE IF startswith(l, "School Profile:") THEN "profile_line"
    ELSE "unknown"

identify_line_type(l) ==
    IF re_search(patterns.phone, l) THEN "phone"
    ELSE IF re_match(patterns.address, l) THEN "address"
    ELSE IF re_match(patterns.url, l) THEN "url"
    ELSE IF l = "Charter" THEN "charter_type"
    ELSE IF re_match(patterns.grade_levels, l) THEN "grade_levels"
    ELSE IF re_match(patterns.sqrp_rating, l) THEN "sqrp_rating"
    ELSE IF startswith(l, "SQRP Rating:") THEN "sqrp_rating_line"
    ELSE IF startswith(l, "School Profile:") THEN "profile_line"
    ELSE "unknown"

-----------------------------------------------------------------------------
(* Values shared by the runs                                               *)

NoExit == "running"
NoFile == "no file"
NoError == "none"
NoDriver == "no session"
NoTag == [present |-> FALSE, text |-> "", has_href |-> FALSE, href |-> ""]
Tag(t) == [present |-> TRUE, text |-> t, has_href |-> FALSE, href |-> ""]
Link(t, h) == [present |-> TRUE, text |-> t, has_href |-> TRUE, href |-> h]
PageError == [ok |-> FALSE, text |-> ""]
Page(t) == [ok |-> TRUE, text |-> t]
EmptyDict == <<>>

\* d[k] = v on a dict
DictSet(d, k, v) == [x \in DOMAIN d \cup {k} |-> IF x = k THEN v ELSE d[x]]

\* d.get(k, default)
DictGet(d, k, default) == IF k \in DOMAIN d THEN d[k] ELSE default

-----------------------------------------------------------------------------
(* CharterschoolExtractor.clean_text_lines                                 *)

\* the rules of the for loop other than the "Results" rule
skip_boilerplate(l) ==
    \/ l = ""
    \/ contains(l, "Privacy - Terms")
    \/ contains(l, "Find a Charter School")
    \/ contains(l, "Illinois Network of Charter Schools")
    \/ re_match([dollar |-> TRUE,
                 alts |-> {<<Plus(Digit)>> \o Lit("/") \o <<Plus(Digit)>>}], l)
    \/ contains(l, "https://www.incschools.org/find-a-charter-school/?")
    \/ startswith(l, "7/4/25")

\* the "Results" rule with the comparison off by one
skip_results_below_two(l) == contains(l, "Results") /\ count(l, " ") < 2

\* if 'Results' in line and line.count(' ') < 3
skip_results(l) == contains(l, "Results") /\ count(l, " ") < 3

CleanSplit ==
    /\ pc = "clean_text_lines"
    /\ raw_lines' = split(text, "\n")
    /\ ci' = 0
    /\ cleaned_lines' = <<>>
    /\ pc' = "clean_loop"
    /\ UNCHANGED <<cliV, extractV, assembleV, classifyV, ioV, scrapeV>>

CleanLine ==
    /\ pc = "clean_loop"
    /\ ci < Len(raw_lines)
    /\ LET l == strip(raw_lines[ci + 1])
       IN  /\ line' = l
           /\ cleaned_lines' = IF skip_boilerplate(l) \/ skip_results(l)
                               THEN cleaned_lines
                               ELSE Append(cleaned_lines, l)
    /\ ci' = ci + 1
    /\ UNCHANGED <<pc, cliV, extractV, raw_lines, assembleV, line_type, ioV, scrapeV>>

\* return cleaned_lines, and main's call of extract_schools_data up to i = 0
CleanReturn ==
    /\ pc = "clean_loop"
    /\ ci = Len(raw_lines)
    /\ lines' = cleaned_lines
    /\ schools' = <<>>
    /\ current_school' = EmptyDict
    /\ i' = 0
    /\ pc' = "extract_schools_data"
    /\ UNCHANGED <<cliV, extractV, cleanV, classifyV, ioV, scrapeV>>

-----------------------------------------------------------------------------
(* CharterschoolExtractor.extract_schools_data                             *)

\* a completeness test that asks for the name only
is_school_complete_name_only(school) == DictGet(school, "School_Name", "") # ""

\* _is_school_complete
is_school_complete(school) ==
    /\ DictGet(school, "School_Name", "") # ""
    /\ DictGet(school, "Address", "") # ""

\* line_type == 'unknown' and len(line) > 10 and not line.isupper()
starts_new_school(t, l) == t = "unknown" /\ Len(l) > 10 /\ ~isupper(l)

\* a new school whose charter type is left empty
new_school_no_charter(l) ==
    [School_Name |-> l, Address |-> "", Phone_Number |-> "", Charter_Type |-> "",
     Grade_Levels |-> "", SQRP_Rating |-> "", School_Profile_URL |-> ""]

\* the dict literal that starts a new school
new_school(l) ==
    [School_Name |-> l, Address |-> "", Phone_Number |-> "",
     Charter_Type |-> "Charter", Grade_Levels |-> "", SQRP_Rating |-> "",
     School_Profile_URL |-> ""]

\* the elif chain after the new-school test
update_field(school, t, l) ==
    CASE t = "address" -> DictSet(school, "Address", l)
      [] t = "phone" -> DictSet(school, "Phone_Number", l)
      [] t = "grade_levels" -> DictSet(school, "Grade_Levels", l)
      [] t = "sqrp_rating" -> DictSet(school, "SQRP_Rating", l)
      [] t = "sqrp_rating_line" ->
            DictSet(school, "SQRP_Rating", strip(replace(l, "SQRP Rating:")))
      [] t = "url" -> DictSet(school, "School_Profile_URL", l)
      [] t = "profile_line" ->
            DictSet(school, "School_Profile_URL", strip(replace(l, "School Profile:")))
      [] OTHER -> school

\* a flush that puts the school in front of the others
flush_in_front(done, school) ==
    IF DictGet(school, "School_Name", "") # "" /\ DictGet(school, "Address", "") # ""
    THEN <<school>> \o done ELSE done

\* if self._is_school_complete(current_school): schools.append(...)
flush(done, school) ==
    IF is_school_complete(school) THEN Append(done, school) ELSE done

AssembleLine ==
    /\ pc = "extract_schools_data"
    /\ i < Len(lines)
    /\ LET l == lines[i + 1]
           t == identify_line_type(l)
       IN  /\ line' = l
           /\ line_type' = t
           /\ IF starts_new_school(t, l)
              THEN /\ schools' = flush(schools, current_school)
                   /\ current_school' = new_school(l)
              ELSE /\ schools' = schools
                   /\ current_school' = update_field(current_school, t, l)
    /\ i' = i + 1
    /\ UNCHANGED <<pc, cliV, extractV, cleanV, lines, ioV, scrapeV>>

AssembleReturn ==
    /\ pc = "extract_schools_data"
    /\ i = Len(lines)
    /\ schools' = flush(schools, current_school)
    /\ pc' = "save_to_csv"
    /\ UNCHANGED <<cliV, extractV, cleanV, lines, i, current_school, classifyV, ioV, scrapeV>>

-----------------------------------------------------------------------------
(* CharterschoolExtractor.extract_text_from_pdf                            *)

\* open(pdf_path, 'rb') and PyPDF2.PdfReader(file); a failure exits with 1
ExtractOpen ==
    /\ pc = "extract_text_from_pdf"
    /\ IF open_ok
       THEN /\ pc' = "extract_pages"
            /\ UNCHANGED <<exit_code, error>>
       ELSE /\ pc' = "exit"
            /\ exit_code' = 1
            /\ error' = "Error reading PDF"
    /\ page_num' = 0
    /\ text' = ""
    /\ UNCHANGED <<cliV, cleanV, assembleV, classifyV, csv_file, diag, scrapeV>>

\* one turn of the loop over pdf_reader.pages: a page that raises is skipped
ExtractPage ==
    /\ pc = "extract_pages"
    /\ page_num < Len(pages)
    /\ text' = IF pages[page_num + 1].ok
               THEN text \o pages[page_num + 1].text \o "\n"
               ELSE text
    /\ page_num' = page_num + 1
    /\ UNCHANGED <<pc, cliV, cleanV, assembleV, classifyV, ioV, scrapeV>>

\* return text, into main's call of clean_text_lines
ExtractReturn ==
    /\ pc = "extract_pages"
    /\ page_num = Len(pages)
    /\ pc' = "clean_text_lines"
    /\ UNCHANGED <<cliV, extractV, cleanV, assembleV, classifyV, ioV, scrapeV>>

-----------------------------------------------------------------------------
(* CharterschoolExtractor.save_to_csv                                      *)

column_order ==
    <<"School_Name", "Address", "Phone_Number", "Charter_Type", "Grade_Levels",
      "SQRP_Rating", "School_Profile_URL">>

\* the columns of the DataFrame: the listed ones it has, then the others
final_cols(records) ==
    LET cols == UNION {DOMAIN records[k] : k \in 1..Len(records)}
    IN  SelectSeq(column_order, LAMBDA c : c \in cols)

\* df.to_csv(output_path, index=False, quoting=csv.QUOTE_ALL)
csv_rows(records) ==
    LET cols == final_cols(records)
    IN  <<cols>> \o [k \in 1..Len(records) |->
                        [c \in 1..Len(cols) |-> DictGet(records[k], cols[c], "")]]

\* save_to_csv that writes the header of an empty result
SaveAlways ==
    /\ csv_file' = csv_rows(schools)
    /\ diag' = diag

\* if not schools: print("No schools data to save!"); return
SaveOrReport ==
    IF schools = <<>>
    THEN /\ diag' = TRUE
         /\ csv_file' = csv_file
    ELSE /\ csv_file' = csv_rows(schools)
         /\ diag' = diag

SaveToCsv ==
    /\ pc = "save_to_csv"
    /\ SaveOrReport
    /\ pc' = "main_done"
    /\ UNCHANGED <<cliV, extractV, cleanV, assembleV, classifyV, exit_code,
                   error, scrapeV>>

-----------------------------------------------------------------------------
(* convert_pdf.main                                                        *)

\* if len(sys.argv) != 3: usage, sys.exit(1)
MainArgs ==
    /\ pc = "main"
    /\ IF argc # 3
       THEN /\ pc' = "exit"
            /\ exit_code' = 1
            /\ error' = "usage"
       ELSE /\ pc' = "validate_input"
            /\ UNCHANGED <<exit_code, error>>
    /\ UNCHANGED <<cliV, extractV, cleanV, assembleV, classifyV, csv_file, diag,
                   scrapeV>>

\* if not Path(input_pdf).exists(): sys.exit(1)
MainValidate ==
    /\ pc = "validate_input"
    /\ IF ~input_exists
       THEN /\ pc' = "exit"
            /\ exit_code' = 1
            /\ error' = "input not found"
       ELSE /\ pc' = "extract_text_from_pdf"
            /\ UNCHANGED <<exit_code, error>>
    /\ UNCHANGED <<cliV, extractV, cleanV, assembleV, classifyV, csv_file, diag,
                   scrapeV>>

\* main returns after its last print: the interpreter exits with 0
MainDone ==
    /\ pc = "main_done"
    /\ pc' = "exit"
    /\ exit_code' = 0
    /\ UNCHANGED <<cliV, extractV, cleanV, assembleV, classifyV, csv_file, diag,
                   error, scrapeV>>

-----------------------------------------------------------------------------
(* scrape_incs.scrape_incs_schools_selenium.  An exception that nothing    *)
(* catches ends the run with a traceback and exit status 1.                *)

Raise(what) ==
    /\ pc' = "exit"
    /\ exit_code' = 1
    /\ error' = what

\* Service(ChromeDriverManager().install()), wrapped into a RuntimeError
ScrapeInstall ==
    /\ pc = "install_driver"
    /\ IF env.install = "ok"
       THEN /\ pc' = "chrome"
            /\ UNCHANGED <<exit_code, error>>
       ELSE Raise("RuntimeError: Failed to install ChromeDriver")
    /\ UNCHANGED <<cliV, extractV, cleanV, assembleV, classifyV, csv_file, diag,
                   scrapeV>>

\* driver = webdriver.Chrome(service=service, options=chrome_options)
ScrapeChrome ==
    /\ pc = "chrome"
    /\ IF env.chrome = "ok"
       THEN /\ pc' = "get"
            /\ driver' = "open"
            /\ UNCHANGED <<exit_code, error>>
       ELSE /\ Raise("WebDriverException: Chrome")
            /\ UNCHANGED driver
    /\ UNCHANGED <<cliV, extractV, cleanV, assembleV, classifyV, csv_file, diag,
                   out_path, dirs_made, env, items, li, listings>>

\* driver.get(url), outside every try
ScrapeGet ==
    /\ pc = "get"
    /\ IF env.get = "ok"
       THEN /\ pc' = "wait"
            /\ UNCHANGED <<exit_code, error>>
       ELSE Raise("WebDriverException: get")
    /\ UNCHANGED <<cliV, extractV, cleanV, assembleV, classifyV, csv_file, diag,
                   scrapeV>>

\* WebDriverWait(driver, 120).until(...); except Exception: driver.quit(), raise
ScrapeWait ==
    /\ pc = "wait"
    /\ IF env.wait = "ok"
       THEN /\ pc' = "page_source"
            /\ UNCHANGED <<driver, exit_code, error>>
       ELSE /\ driver' = "quit"
            /\ Raise("RuntimeError: Could not find schools list after waiting")
    /\ UNCHANGED <<cliV, extractV, cleanV, assembleV, classifyV, csv_file, diag,
                   out_path, dirs_made, env, items, li, listings>>

\* html = driver.page_source; driver.quit(); soup.select('.schools-list li')
ScrapePageSource ==
    /\ pc = "page_source"
    /\ IF env.page_source = "ok"
       THEN /\ driver' = "quit"
            /\ items' = env.html
            /\ li' = 0
            /\ listings' = <<>>
            /\ pc' = "parse"
            /\ UNCHANGED <<exit_code, error>>
       ELSE /\ Raise("WebDriverException: page_source")
            /\ UNCHANGED <<driver, items, li, listings>>
    /\ UNCHANGED <<cliV, extractV, cleanV, assembleV, classifyV, csv_file, diag,
                   out_path, dirs_made, env>>

\* x.get_text(strip=True) if x else ''
text_of(tag) == IF tag.present THEN strip(tag.text) ELSE ""

\* x.get_text(strip=True).replace(label, '').strip() if x else ''
labelled(tag, label) ==
    IF tag.present THEN strip(replace(strip(tag.text), label)) ELSE ""

\* the dict appended for one <li>
listing_of(item) ==
    [name |-> text_of(item.a),
     link |-> IF item.a.present /\ item.a.has_href THEN item.a.href ELSE "",
     address |-> text_of(item.address),
     phone |-> text_of(item.phone),
     grades |-> labelled(item.grades, "Grades Served:"),
     charter |-> labelled(item.charter, "Charter Type:"),
     network |-> labelled(item.network, "Network:")]

ScrapeItem ==
    /\ pc = "parse"
    /\ li < Len(items)
    /\ listings' = Append(listings, listing_of(items[li + 1]))
    /\ li' = li + 1
    /\ UNCHANGED <<pc, cliV, extractV, cleanV, assembleV, classifyV, ioV,
                   out_path, dirs_made, driver, env, items>>

ScrapeReturn ==
    /\ pc = "parse"
    /\ li = Len(items)
    /\ pc' = "write_schools_to_csv"
    /\ UNCHANGED <<cliV, extractV, cleanV, assembleV, classifyV, ioV, scrapeV>>

-----------------------------------------------------------------------------
(* scrape_incs.write_schools_to_csv and the __main__ block                 *)

fieldnames == <<"name", "link", "address", "phone", "grades", "charter", "network">>

WriteSchoolsToCsv ==
    /\ pc = "write_schools_to_csv"
    /\ csv_file' = <<fieldnames>> \o
                   [k \in 1..Len(listings) |->
                       [c \in 1..Len(fieldnames) |-> listings[k][fieldnames[c]]]]
    /\ pc' = "script_finished"
    /\ UNCHANGED <<cliV, extractV, cleanV, assembleV, classifyV, diag, exit_code,
                   error, scrapeV>>

\* if len(sys.argv) != 2: usage, sys.exit(1)
ScrapeArgs ==
    /\ pc = "scrape_main"
    /\ IF argc # 2
       THEN Raise("usage")
       ELSE /\ pc' = "makedirs"
            /\ UNCHANGED <<exit_code, error>>
    /\ UNCHANGED <<cliV, extractV, cleanV, assembleV, classifyV, csv_file, diag,
                   scrapeV>>

\* os.makedirs(os.path.dirname(output_csv), exist_ok=True): os.makedirs('')
\* raises FileNotFoundError
ScrapeMakedirs ==
    /\ pc = "makedirs"
    /\ IF out_path.dir = ""
       THEN /\ Raise("FileNotFoundError: makedirs")
            /\ UNCHANGED dirs_made
       ELSE /\ dirs_made' = ~out_path.dir_exists
            /\ pc' = "install_driver"
            /\ UNCHANGED <<exit_code, error>>
    /\ UNCHANGED <<cliV, extractV, cleanV, assembleV, classifyV, csv_file, diag,
                   out_path, driver, env, items, li, listings>>

ScrapeDone ==
    /\ pc = "script_finished"
    /\ pc' = "exit"
    /\ exit_code' = 0
    /\ UNCHANGED <<cliV, extractV, cleanV, assembleV, classifyV, csv_file, diag,
                   error, scrapeV>>

-----------------------------------------------------------------------------
(* Inputs and specifications                                               *)

MaxPages == 2
MaxRawLines == 2
MaxLines == 4
MaxFieldLines == 3
MaxItems == 2

\* the sequences over S of length at most n
SeqsUpTo(S, n) == UNION {[1..k -> S] : k \in 0..n}

RECURSIVE join(_)
join(ls) ==
    IF ls = <<>> THEN ""
    ELSE IF Len(ls) = 1 THEN ls[1]
    ELSE ls[1] \o "\n" \o join(Tail(ls))

IdleCli == argc = 3 /\ input_exists = TRUE /\ open_ok = TRUE /\ pages = <<>>
IdleExtract == page_num = 0 /\ text = ""
IdleClean == raw_lines = <<>> /\ ci = 0 /\ cleaned_lines = <<>>
IdleAssemble == lines = <<>> /\ i = 0 /\ current_school = EmptyDict /\ schools = <<>>
IdleClassify == line = "" /\ line_type = ""
IdleIo == csv_file = NoFile /\ diag = FALSE /\ exit_code = NoExit /\ error = NoError
IdleScrape ==
    /\ out_path = [dir |-> "out", dir_exists |-> TRUE]
    /\ dirs_made = FALSE
    /\ driver = NoDriver
    /\ env = [install |-> "ok", chrome |-> "ok", get |-> "ok", wait |-> "ok",
              page_source |-> "ok", html |-> <<>>]
    /\ items = <<>>
    /\ li = 0
    /\ listings = <<>>

(* convert_pdf.py run from the command line *)

PagePool ==
    {Page(""),
     Page("Illinois Network of Charter Schools\n1/20"),
     Page("Acme Academy\n12 A, IL 60601\n(773) 555-0100"),
     Page("Bell Charter School\n(773) 555-0100\n 7/4/25, 10:00 AM"),
     Page(" 7 Oak St, IL 60602 \nK-8\n25 Results"),
     PageError}

Init ==
    /\ pc = "main"
    /\ argc \in {2, 3, 4}
    /\ input_exists \in BOOLEAN
    /\ open_ok \in BOOLEAN
    /\ pages \in SeqsUpTo(PagePool, MaxPages)
    /\ IdleExtract /\ IdleClean /\ IdleAssemble /\ IdleClassify /\ IdleIo
    /\ IdleScrape

Next ==
    \/ MainArgs
    \/ MainValidate
    \/ ExtractOpen
    \/ ExtractPage
    \/ ExtractReturn
    \/ CleanSplit
    \/ CleanLine
    \/ CleanReturn
    \/ AssembleLine
    \/ AssembleReturn
    \/ SaveToCsv
    \/ MainDone

Spec == Init /\ [][Next]_vars

(* clean_text_lines called on a text *)

RawPool ==
    {"", "  ", "Results", " Results\t", "25 Results", "Showing 25 Results",
     "Showing 1-25 of Results", "Results for the Chicago area", "Results  x",
     "a b c Results", "No results found", "Result 1 of 2",
     "Find a Charter School Results", "1/20 Results", "Privacy - Terms",
     "1/20", "1/20 ", "7/4/25, 10:00 AM", "Illinois Network of Charter Schools",
     "https://www.incschools.org/find-a-charter-school/?page=2 Results",
     "Acme Academy", "12 A, IL 60601"}

InitClean ==
    /\ pc = "clean_text_lines"
    /\ text \in {join(ls) : ls \in SeqsUpTo(RawPool, MaxRawLines)}
    /\ page_num = 0
    /\ IdleCli /\ IdleClean /\ IdleAssemble /\ IdleClassify /\ IdleIo /\ IdleScrape

NextClean == CleanSplit \/ CleanLine \/ CleanReturn

SpecClean == InitClean /\ [][NextClean]_vars

(* identify_line_type called on a line *)

AddressShapedLines ==
    {d \o m \o st \o sp \o zip \o tl :
        d \in {"1", "12", ""}, m \in {"", "0", " Main St, ", " (773) 555-0100 "},
        st \in {"IL", "IN", "il", "I"}, sp \in {" ", "\t", ""},
        zip \in {"60601", "6060", "60601-1234", "60601-123"},
        tl \in {"", " ", "x"}}

OtherLines ==
    {"", "Charter", "charter", "Charter ", "Acme School", "ACME SCHOOL 1",
     "Acme", "(773) 555-0100", "Phone: (773) 555-0100 ext 2", "(773)555-0100",
     "(773) 555-010", "K-8", "K - 8", "PK-12", "PK -12", "9-12", "9 - 12",
     "K--8", "K-", "N/A", "n/a", "Grades K-8", "K-8 ", "Level 2", "Level 2+",
     "Level 22", "Level\t1", "Not Applicable", "Inability to Rate",
     "Not applicable", "SQRP Rating: Level 2+", "SQRP Rating:",
     "SQRP Rating Level 1", " SQRP Rating: Level 1",
     "SQRP Rating: (773) 555-0100", "School Profile: (773) 555-0100",
     "School Profile: https://www.incschools.org/school/acme/",
     "School Profile:", "School Profile",
     "https://www.incschools.org/school/acme/",
     "https://www.incschools.org/school/acme",
     "https://www.incschools.org/school/acme/more",
     "https://www.incschools.org/school/",
     "https://www.incschools.org/school//",
     "https://www.incschools.org/school/a (773) 555-0100",
     "see https://www.incschools.org/school/acme/",
     "https://www.incschools.org/find-a-charter-school/?page=2",
     "123 Main St, Chicago, IL 60601", "123 Main St, Gary, IN 46401",
     "1IL 60601", "12IL 60601", "12 A,\nIL 60601", "12 A, IL 60601\n"}

ClassifyPool == AddressShapedLines \cup OtherLines

Classify ==
    /\ pc = "identify_line_type"
    /\ line_type' = identify_line_type(line)
    /\ pc' = "classified"
    /\ UNCHANGED <<cliV, extractV, cleanV, assembleV, line, ioV, scrapeV>>

InitClassify ==
    /\ pc = "identify_line_type"
    /\ line \in ClassifyPool
    /\ line_type = ""
    /\ IdleCli /\ IdleExtract /\ IdleClean /\ IdleAssemble /\ IdleIo /\ IdleScrape

NextClassify == Classify

SpecClassify == InitClassify /\ [][NextClassify]_vars

(* extract_schools_data called on cleaned lines *)

KeptByCleaner(l) == l = strip(l) /\ ~skip_boilerplate(l) /\ ~skip_results(l)

LinePool ==
    {l \in {"Acme Academy", "Bell Charter School", "12 A, IL 60601",
            "7 Oak St, IL 60602-1234", "(773) 555-0100", "ACME ACADEMY HS",
            "Chicago"} :
        KeptByCleaner(l)}

InitAssemble ==
    /\ pc = "extract_schools_data"
    /\ lines \in SeqsUpTo(LinePool, MaxLines)
    /\ i = 0
    /\ current_school = EmptyDict
    /\ schools = <<>>
    /\ IdleCli /\ IdleExtract /\ IdleClean /\ IdleClassify /\ IdleIo /\ IdleScrape

NextAssemble == AssembleLine \/ AssembleReturn

SpecAssemble == InitAssemble /\ [][NextAssemble]_vars

FieldPool ==
    {l \in {"Acme Academy", "12 A, IL 60601", "7 Oak St, IL 60602-1234",
            "(773) 555-0100", "(312) 555-0199", "K-8", "9-12", "Level 2+",
            "Not Applicable", "SQRP Rating: Level 1",
            "SQRP Rating: see SQRP Rating: Level 1",
            "https://www.incschools.org/school/acme/",
            "School Profile: https://www.incschools.org/school/bell/",
            "Charter", "ACME ACADEMY HS", "Chicago"} : KeptByCleaner(l)}

InitFields ==
    /\ pc = "extract_schools_data"
    /\ lines \in SeqsUpTo(FieldPool, MaxFieldLines)
    /\ i = 0
    /\ current_school = EmptyDict
    /\ schools = <<>>
    /\ IdleCli /\ IdleExtract /\ IdleClean /\ IdleClassify /\ IdleIo /\ IdleScrape

SpecFields == InitFields /\ [][NextAssemble]_vars

(* scrape_incs.py run from the command line *)

ItemPool ==
    {[a |-> NoTag, address |-> NoTag, phone |-> NoTag, grades |-> NoTag,
      charter |-> NoTag, network |-> NoTag],
     [a |-> Link(" Acme Academy ", "https://www.incschools.org/school/acme/"),
      address |-> Tag("12 A, IL 60601"), phone |-> Tag("(773) 555-0100"),
      grades |-> Tag("Grades Served: K-8"), charter |-> Tag("Charter Type: Charter"),
      network |-> Tag("Network: Acme")],
     [a |-> Tag("Bell"), address |-> NoTag, phone |-> Tag("(773) 555-0100"),
      grades |-> Tag("K-8"), charter |-> NoTag, network |-> Tag(" Network:")]}

InitScrape ==
    /\ pc = "scrape_main"
    /\ argc \in {1, 2, 3}
    /\ input_exists = TRUE /\ open_ok = TRUE /\ pages = <<>>
    /\ out_path \in [dir : {"", "out", "out/data"}, dir_exists : BOOLEAN]
    /\ (out_path.dir = "" => out_path.dir_exists)
    /\ env \in [install : {"ok", "raise"}, chrome : {"ok", "raise"},
                get : {"ok", "raise"}, wait : {"ok", "timeout", "raise"},
                page_source : {"ok", "raise"}, html : SeqsUpTo(ItemPool, MaxItems)]
    /\ dirs_made = FALSE
    /\ driver = NoDriver
    /\ items = <<>>
    /\ li = 0
    /\ listings = <<>>
    /\ IdleExtract /\ IdleClean /\ IdleAssemble /\ IdleClassify /\ IdleIo

NextScrape ==
    \/ ScrapeArgs
    \/ ScrapeMakedirs
    \/ ScrapeInstall
    \/ ScrapeChrome
    \/ ScrapeGet
    \/ ScrapeWait
    \/ ScrapePageSource
    \/ ScrapeItem
    \/ ScrapeReturn
    \/ WriteSchoolsToCsv
    \/ ScrapeDone

SpecScrape == InitScrape /\ [][NextScrape]_vars

-----------------------------------------------------------------------------
(* Properties of the record assembler                                      *)

\* the classifier's answer on each line the assembler is given
TypeOfLine == [l \in LinePool \cup FieldPool |-> identify_line_type(l)]

IsNameLine(l) == TypeOfLine[l] = "unknown" /\ Len(l) > 10 /\ ~isupper(l)
IsAddressLine(l) == TypeOfLine[l] = "address"

\* the positions of the name-lines of the input
NameIdx == {k \in 1..Len(lines) : IsNameLine(lines[k])}

\* the last line before the name-line that follows position k
SegEnd(k) == Min({j \in NameIdx \cup {Len(lines) + 1} : j > k}) - 1

\* the name-lines with an address-line before the next name-line
WithAddress == {k \in NameIdx : \E j \in (k + 1)..SegEnd(k) : IsAddressLine(lines[j])}

\* the members of a set of positions in ascending order
Ascending(K) ==
    [n \in 1..Cardinality(K) |-> CHOOSE k \in K : Cardinality({j \in K : j < k}) = n - 1]

Returned == pc = "save_to_csv"

\* C1: every record of the output has a non-empty name and a non-empty
\* address, and, once the assembler has returned, is the record of a
\* name-line that an address-line follows before the next name-line.
C1_RecordsAreComplete ==
    \A n \in 1..Len(schools) :
        /\ DictGet(schools[n], "School_Name", "") # ""
        /\ DictGet(schools[n], "Address", "") # ""
        /\ Returned => \E k \in WithAddress : lines[k] = schools[n]["School_Name"]

\* a name-line without address was dropped while another record came out
C1_Witness ==
    /\ Returned
    /\ NameIdx \ WithAddress # {}
    /\ schools # <<>>
    /\ \A n \in 1..Len(schools) :
          \A k \in NameIdx \ WithAddress : schools[n]["School_Name"] # lines[k]

\* C2: one name-line followed by one address-line gives exactly one record,
\* with those two fields set and the others at their defaults.
C2_NameThenAddress ==
    (Returned /\ Len(lines) = 2 /\ IsNameLine(lines[1]) /\ IsAddressLine(lines[2]))
    => schools = <<[School_Name |-> lines[1], Address |-> lines[2],
                    Phone_Number |-> "", Charter_Type |-> "Charter",
                    Grade_Levels |-> "", SQRP_Rating |-> "",
                    School_Profile_URL |-> ""]>>

C2_Witness ==
    Returned /\ Len(lines) = 2 /\ IsNameLine(lines[1]) /\ IsAddressLine(lines[2])
    /\ Len(schools) = 1

\* the name-lines with an address whose record has been flushed: all of them
\* after the return, before it those that a later name-line has closed
Flushed ==
    IF Returned THEN WithAddress
    ELSE {k \in WithAddress : \E j \in NameIdx : k < j /\ j <= i}

\* C9: the output holds one record per name-line that an address-line
\* follows before the next name-line, in input order, each flushed once, at
\* the next name-line or at the end of the input, and named by its name-line.
C9_OneRecordPerNameInOrder ==
    /\ Len(schools) = Cardinality(Flushed)
    /\ \A n \in 1..Len(schools) :
          schools[n]["School_Name"] = lines[Ascending(Flushed)[n]]

\* two records of different names came out, in input order
C9_Witness ==
    /\ Returned
    /\ Len(schools) = 2
    /\ schools[1]["School_Name"] # schools[2]["School_Name"]

-----------------------------------------------------------------------------
(* Properties of the command-line run of convert_pdf.py                    *)

\* C5: an empty result of the assembler writes no file, prints the
\* diagnostic and still ends with exit status 0; a wrong argument count, a
\* missing input and an input that cannot be opened end with exit status 1
\* and no file written.
C5_SoftFailureOnEmptyResult ==
    /\ (pc \in {"main_done", "exit"} /\ error = NoError /\ schools = <<>>)
          => (csv_file = NoFile /\ diag /\ (pc = "exit" => exit_code = 0))
    /\ (pc = "exit" /\ (argc # 3 \/ ~input_exists \/ ~open_ok))
          => (exit_code = 1 /\ csv_file = NoFile /\ error # NoError)
    /\ (pc = "exit" /\ error = NoError /\ schools # <<>>)
          => (csv_file # NoFile /\ ~diag /\ exit_code = 0)

\* lines reached the assembler, none became a record, and the run ended with 0
C5_Witness ==
    /\ pc = "exit"
    /\ exit_code = 0
    /\ lines # <<>>
    /\ schools = <<>>
    /\ csv_file = NoFile
    /\ diag

-----------------------------------------------------------------------------
(* Properties of the line cleaner                                          *)

\* the space-separated tokens of a line
Tokens(l) ==
    Cardinality({k \in 1..Len(l) : Ch(l, k) # " " /\ (k = 1 \/ Ch(l, k - 1) = " ")})

\* the lines the loop has looked at that the "Results" rule decides: they
\* contain "Results" and no other rule removes them
ResultsLines ==
    {l \in {strip(raw_lines[k]) : k \in 1..ci} :
        contains(l, "Results") /\ ~skip_boilerplate(l)}

Removed(l) == \A n \in 1..Len(cleaned_lines) : cleaned_lines[n] # l

\* C6 as stated: a line containing "Results" that no other rule removes is
\* removed exactly when it has fewer than 3 space-separated tokens.
C6_RemovedBelowThreeTokens == \A l \in ResultsLines : Removed(l) <=> Tokens(l) < 3

\* C6 as amended: a line containing "Results" that no other rule removes is
\* removed exactly when it has fewer than 3 space characters.
C6_RemovedBelowThreeSpaces == \A l \in ResultsLines : Removed(l) <=> count(l, " ") < 3

\* the cleaner returned, having removed a line of three tokens and two
\* spaces that contains "Results" and kept one of more than two spaces
C6_Witness ==
    /\ pc = "extract_schools_data"
    /\ \E l \in ResultsLines : Tokens(l) = 3 /\ count(l, " ") = 2 /\ Removed(l)
    /\ \E l \in ResultsLines : count(l, " ") >= 3 /\ ~Removed(l)

-----------------------------------------------------------------------------
(* Properties of the line classifier                                       *)

Classified == pc = "classified"

AllDigits(s) == \A k \in 1..Len(s) : Ch(s, k) \in Digit

\* the last n characters of l are a ZIP: 5 digits, or 5 digits - 4 digits
ZipTail(l, n) ==
    LET z == SubSeq(l, Len(l) - n + 1, Len(l))
    IN  \/ n = 5 /\ AllDigits(z)
        \/ n = 10 /\ AllDigits(SubSeq(z, 1, 5)) /\ Ch(z, 6) = "-"
                  /\ AllDigits(SubSeq(z, 7, 10))

\* l ends with a state code among codes, a space and a ZIP, with at least
\* gap characters in front of the state code
EndsWithStateAndZip(l, codes, gap) ==
    \E n \in {5, 10} :
        /\ Len(l) >= n + 3 + gap
        /\ ZipTail(l, n)
        /\ Ch(l, Len(l) - n) = " "
        /\ SubSeq(l, Len(l) - n - 2, Len(l) - n - 1) \in codes

HasPhoneShape(l) == re_search(patterns.phone, l)

TwoLetterCodes == {a \o b : a \in Upper, b \in Upper}

\* C7 as stated: a line that starts with a digit and ends with any
\* two-letter state code, a space and a ZIP, and holds no phone-number
\* shape, is classified address.
C7_AnyStateCode ==
    (Classified /\ Len(line) >= 1 /\ Ch(line, 1) \in Digit
     /\ EndsWithStateAndZip(line, TwoLetterCodes, 1) /\ ~HasPhoneShape(line))
    => line_type = "address"

\* C7 as amended: a line without line break that starts with a digit, has
\* at least one more character before the state code, ends with the state
\* code IL, a space and a ZIP (5 digits, optionally -4 digits), and holds
\* no phone-number shape, is classified address.
C7_IllinoisOnly ==
    (Classified /\ Len(line) >= 1 /\ Ch(line, 1) \in Digit
     /\ EndsWithStateAndZip(line, {"IL"}, 2) /\ ~contains(line, "\n")
     /\ ~HasPhoneShape(line))
    => line_type = "address"

\* an Illinois address with a ZIP+4 was classified address
C7_Witness ==
    /\ Classified
    /\ Len(line) >= 1
    /\ Ch(line, 1) \in Digit
    /\ EndsWithStateAndZip(line, {"IL"}, 2)
    /\ ZipTail(line, 10)
    /\ ~HasPhoneShape(line)
    /\ line_type = "address"

priority ==
    <<"phone", "address", "url", "charter_type", "grade_levels", "sqrp_rating",
      "sqrp_rating_line", "profile_line">>

\* the test of one category, on its own
satisfies(cat, l) ==
    CASE cat = "phone" -> re_search(patterns.phone, l)
      [] cat = "address" -> re_match(patterns.address, l)
      [] cat = "url" -> re_match(patterns.url, l)
      [] cat = "charter_type" -> l = "Charter"
      [] cat = "grade_levels" -> re_match(patterns.grade_levels, l)
      [] cat = "sqrp_rating" -> re_match(patterns.sqrp_rating, l)
      [] cat = "sqrp_rating_line" -> startswith(l, "SQRP Rating:")
      [] cat = "profile_line" -> startswith(l, "School Profile:")

Matching(l) == {k \in 1..Len(priority) : satisfies(priority[k], l)}

\* C8: the category returned is the earliest one, in the order phone,
\* address, profile URL, "Charter", grade levels, SQRP rating, "SQRP Rating:"
\* prefix, "School Profile:" prefix, whose test the line passes, and unknown
\* only when it passes none.
C8_FirstMatchWins ==
    Classified =>
        line_type = IF Matching(line) = {} THEN "unknown"
                    ELSE priority[Min(Matching(line))]

\* a line that passes the phone test and a later test was classified phone
C8_Witness ==
    /\ Classified
    /\ Cardinality(Matching(line)) >= 2
    /\ satisfies("address", line)
    /\ line_type = "phone"

-----------------------------------------------------------------------------
(* Properties of the command-line run of scrape_incs.py                    *)

\* C3: on every path that ends the run after the browser session has been
\* created, the session has been quit.
C3_SessionAlwaysReleased == (pc = "exit" /\ driver # NoDriver) => driver = "quit"

\* C4: with one argument the run does not fail in the directory-creation
\* step, whatever the directory part of the path, and with any other
\* argument count it prints the usage and exits with 1 without scraping.
C4_ParentDirectoriesCreated ==
    /\ (pc = "exit" /\ argc = 2) => error # "FileNotFoundError: makedirs"
    /\ (pc = "exit" /\ argc # 2) => (error = "usage" /\ exit_code = 1 /\ driver = NoDriver)

-----------------------------------------------------------------------------
(* Properties of the fields of the records                                 *)

\* the field a line of type t writes, "" when it writes none
FieldOf(t) ==
    CASE t = "address" -> "Address"
      [] t = "phone" -> "Phone_Number"
      [] t = "grade_levels" -> "Grade_Levels"
      [] t \in {"sqrp_rating", "sqrp_rating_line"} -> "SQRP_Rating"
      [] t \in {"url", "profile_line"} -> "School_Profile_URL"
      [] OTHER -> ""

\* the line without its prefix and the blanks around the rest
WithoutPrefix(l, prefix) == strip(SubSeq(l, Len(prefix) + 1, Len(l)))

\* the value a line gives to its field
ValueOf(l) ==
    CASE TypeOfLine[l] = "sqrp_rating_line" -> WithoutPrefix(l, "SQRP Rating:")
      [] TypeOfLine[l] = "profile_line" -> WithoutPrefix(l, "School Profile:")
      [] OTHER -> l

\* the value of field f for the name-line at k: that of the last line of the
\* field's type before the next name-line, or the default
LastValue(k, f) ==
    LET js == {j \in (k + 1)..SegEnd(k) : FieldOf(TypeOfLine[lines[j]]) = f}
    IN  IF js = {} THEN "" ELSE ValueOf(lines[Max(js)])

\* C10: in each record, each of address, phone, grade levels, SQRP rating and
\* profile URL is the value of the last line of that field's type (prefix
\* stripped) between the record's name-line and the next one, or the
\* default, and the charter type is "Charter".
C10_LastValueWins ==
    Returned =>
        \A n \in 1..Len(schools) :
            LET k == Ascending(WithAddress)[n]
            IN  /\ schools[n]["Charter_Type"] = "Charter"
                /\ \A f \in {"Address", "Phone_Number", "Grade_Levels",
                             "SQRP_Rating", "School_Profile_URL"} :
                       schools[n][f] = LastValue(k, f)

====
